---- MODULE Spec2Model ----
(***************************************************************************)
(* LUTools: the lutmap coordinate mapper, the span sampler, the dense LUT   *)
(* builder and cache loader (lut.hpp), the cube exporter (cube.hpp), and   *)
(* the command-line program with its batch applier (main.cpp).             *)
(*                                                                         *)
(* The dense LUT has 256^3 entries, the lutmap 4096^2 pixels and a cache   *)
(* file 2^26 bytes.  The model keeps the program's constants and tracks    *)
(* these arrays sparsely: loops over a channel 0..255 visit the channel    *)
(* values of ChanVals only, and arrays are functions on the indices        *)
(* (offsets) those values produce.                                         *)
(***************************************************************************)
EXTENDS Integers, Sequences, FiniteSets, TLC

VARIABLES
    mIn,        \* mapper harness: the inputs (two colors, axis, flip)
    mOut,       \* mapper harness: the positions computed, once done
    sIn,        \* sampler harness: begin, end and samples
    sOut,       \* sampler harness: what sampleSpan did, once done
    gcfg,       \* cube.hpp: the table, cube_res and the output file's directory
    gpc,        \* cube.hpp: where generateCube stands ("idle" before the call)
    gloop,      \* cube.hpp: b_index, g_index, r_index
    gpts,       \* cube.hpp: sample_points
    gfile,      \* cube.hpp: the cube file: LUT_3D_SIZE and the data lines
    lcfg,       \* lut.hpp: the arguments and the environment of the calls
    lpc,        \* lut.hpp: where the running call stands ("idle" between calls)
    lloop,      \* lut.hpp: the build loop's r, g, b
    laxis,      \* lut.hpp: cacheLUTMap's axis
    lbuf,       \* lut.hpp: per function, its buffer "data": state, deletes, content
    lstat,      \* lut.hpp: pixels sampled, writes per entry, the read's fail bit
    lfile,      \* lut.hpp: the cache file
    lret,       \* lut.hpp: per function, how its call ended and what it returned
    pc,         \* main.cpp: where the main thread stands
    rest,       \* main.cpp: argv after the LUT argument (and -cube [SAMPLES])
    cube,       \* main.cpp: cube_samples handed to convertMap
    lutf,       \* main.cpp: the file lut_file names
    lut,        \* main.cpp: the buffer "lut": state, deletes, content
    loopi,      \* main.cpp: the job loop's i
    cap,        \* main.cpp: workers.capacity()
    workers,    \* main.cpp: the vector of ThreadGuard, one record per thread
    disk,       \* main.cpp: the image files written, per output path
    coutm,      \* main.cpp: the owner of cout_mutex, or "free"
    cerrm,      \* main.cpp: the owner of cerr_mutex, or "free"
    run         \* main.cpp: the process: exit status, what failed, stream writers

mapperVars == <<mIn, mOut>>
samplerVars == <<sIn, sOut>>
cubeVars == <<gcfg, gpc, gloop, gpts, gfile>>
lutVars == <<lcfg, lpc, lloop, laxis, lbuf, lstat, lfile, lret>>
mainVars == <<pc, rest, cube, lutf, lut, loopi, cap, workers, disk, coutm, cerrm, run>>
notLutVars == <<mapperVars, samplerVars, cubeVars, mainVars>>
notMapperVars == <<samplerVars, cubeVars, lutVars, mainVars>>
notMainVars == <<mapperVars, samplerVars, cubeVars, lutVars>>
notSamplerVars == <<mapperVars, cubeVars, lutVars, mainVars>>
notCubeVars == <<mapperVars, samplerVars, lutVars, mainVars>>
vars == <<mapperVars, samplerVars, cubeVars, lutVars, mainVars>>

(***************************************************************************)
(* Bounds of the model                                                     *)
(***************************************************************************)
\* how many of the channel values of ChanSamples the loops over 0..255 visit
NumChan == 4

(***************************************************************************)
(* color.hpp                                                               *)
(***************************************************************************)
\* channel values sampled by the model, in the order they are added
ChanSamples == <<0, 255, 1, 16, 47, 254, 128, 17>>

ChanVals == {ChanSamples[i] : i \in 1..NumChan}

\* struct Color { r, g, b, a }
Color(r, g, b, a) == [r |-> r, g |-> g, b |-> b, a |-> a]

\* Color::operator[]
ColorAt(c, channel) ==
    CASE channel = 0 -> c.r
      [] channel = 1 -> c.g
      [] channel = 2 -> c.b
      [] channel = 3 -> c.a
      [] OTHER -> 0

\* Color::getHexRGB: (r << 16) | (g << 8) | b, the fields being 8 bits wide
getHexRGB(c) == c.r * 65536 + c.g * 256 + c.b

SameRGB(c, d) == c.r = d.r /\ c.g = d.g /\ c.b = d.b

(***************************************************************************)
(* lut.hpp / main.cpp: the coordinate mapper                               *)
(***************************************************************************)
LUT_RAW_DATA_SIZE == 256 * 256 * 256

MAP_SIDE == 4096

\* a mapper that takes the vertical channel from the horizontal one
rgbToMapPositionSameChannel(color, axis, flip) ==
    LET ax   == (axis + 3) % 256
        a    == ax % 3
        h    == (ax + 1) % 3
        quot == ColorAt(color, a) \div 16
        rem  == ColorAt(color, a) % 16
    IN  << rem * 256 + (IF flip /\ ColorAt(color, a) % 2 = 1
                        THEN 255 - ColorAt(color, h) ELSE ColorAt(color, h)),
           quot * 256 + (IF flip /\ quot % 2 = 1
                         THEN 255 - ColorAt(color, h) ELSE ColorAt(color, h)) >>

\* rgbToMapPosition (lut.hpp): axis is an unsigned char, ">> 4" and "& 15"
rgbToMapPosition(color, axis, flip) ==
    LET ax   == (axis + 3) % 256
        a    == ax % 3
        h    == (ax + 1) % 3
        v    == (ax - 1) % 3
        quot == ColorAt(color, a) \div 16
        rem  == ColorAt(color, a) % 16
    IN  << rem * 256 + (IF flip /\ ColorAt(color, a) % 2 = 1
                        THEN 255 - ColorAt(color, h) ELSE ColorAt(color, h)),
           quot * 256 + (IF flip /\ quot % 2 = 1
                         THEN 255 - ColorAt(color, v) ELSE ColorAt(color, v)) >>

\* rgbToPosition (main.cpp): the same function written with "/ 16" and "% 16"
rgbToPosition(color, axis, flip) ==
    LET ax   == (axis + 3) % 256
        a    == ax % 3
        h    == (ax + 1) % 3
        v    == (ax - 1) % 3
        quot == ColorAt(color, a) \div 16
        rem  == ColorAt(color, a) % 16
    IN  << rem * 256 + (IF flip /\ ColorAt(color, a) % 2 = 1
                        THEN 255 - ColorAt(color, h) ELSE ColorAt(color, h)),
           quot * 256 + (IF flip /\ quot % 2 = 1
                         THEN 255 - ColorAt(color, v) ELSE ColorAt(color, v)) >>

(***************************************************************************)
(* pathutils.hpp: a path is a sequence of one-character strings            *)
(***************************************************************************)
npos == 0

\* std::string::find_last_of(ch): the last place of ch, or npos
FindLastOf(path, ch) ==
    IF \E i \in 1..Len(path) : path[i] = ch
    THEN CHOOSE i \in 1..Len(path) :
            path[i] = ch /\ \A j \in (i + 1)..Len(path) : path[j] # ch
    ELSE npos

\* std::tolower on the characters the model's paths hold
ToLowerChar(ch) ==
    CASE ch = "R" -> "r"
      [] ch = "G" -> "g"
      [] ch = "B" -> "b"
      [] OTHER -> ch

getExtensionNameRemoved(path) ==
    LET where_dot == FindLastOf(path, ".")
    IN  IF where_dot # npos THEN SubSeq(path, 1, where_dot - 1) ELSE path

getExtensionName(path) ==
    LET where_dot == FindLastOf(path, ".")
        result == IF where_dot # npos
                  THEN SubSeq(path, where_dot + 1, Len(path)) ELSE <<>>
    IN  [i \in 1..Len(result) |-> ToLowerChar(result[i])]

getSecondaryExtensionName(path) == getExtensionName(getExtensionNameRemoved(path))

(***************************************************************************)
(* image.hpp: a decoded image is its width, its height and its pixels, the *)
(* pixel at place k of the row-major buffer being a function of k.         *)
(***************************************************************************)
\* the content of the pixel buffer at place k, per kind of picture
PixelOf(kind, k) ==
    CASE kind = "grad"  -> Color(k % 256, (k \div 256) % 256, (k \div 65536) % 256, 255)
      [] kind = "sheer" -> Color((k \div 65536) % 256, k % 256, (k \div 256) % 256,
                                 (k + k \div 4096) % 256)
      [] OTHER          -> Color(7, 7, 7, 255)

\* Image::Image: decoding fails, or the sizes are not positive
ImageLoads(img) == img.ok /\ img.w > 0 /\ img.h > 0

\* Image::at(x, y): the place is clamped into the picture
ImageAt(img, x, y) ==
    LET cx == IF x >= img.w THEN img.w - 1 ELSE x
        dx == IF cx < 0 THEN 0 ELSE cx
        cy == IF y >= img.h THEN img.h - 1 ELSE y
        dy == IF cy < 0 THEN 0 ELSE cy
    IN  PixelOf(img.kind, dy * img.w + dx)

\* Image::at(pair)
ImageAtPair(img, xy) == ImageAt(img, xy[1], xy[2])

(***************************************************************************)
(* lut.hpp: the dense LUT and the cache file                               *)
(***************************************************************************)
\* the entries of the dense LUT the model tracks
Idx == {getHexRGB(Color(r, g, b, 255)) : r \in ChanVals, g \in ChanVals, b \in ChanVals}

\* sizeof(Color)
SIZEOF_COLOR == 4

CACHE_BYTES == LUT_RAW_DATA_SIZE * SIZEOF_COLOR

\* the bytes of the cache file the model tracks
Offsets == {SIZEOF_COLOR * i + k : i \in Idx, k \in 0..(SIZEOF_COLOR - 1)}

\* new Color[LUT_RAW_DATA_SIZE] {}
ZeroData == [i \in Idx |-> Color(0, 0, 0, 0)]

ZeroBytes == [o \in Offsets |-> 0]

\* byte k of a Color in memory, written in another order
ColorByteAlphaFirst(c, k) ==
    CASE k = 0 -> c.a
      [] k = 1 -> c.r
      [] k = 2 -> c.g
      [] OTHER -> c.b

\* byte k of a Color in memory: the fields r, g, b, a in this order
ColorByte(c, k) ==
    CASE k = 0 -> c.r
      [] k = 1 -> c.g
      [] k = 2 -> c.b
      [] OTHER -> c.a

\* fout.write(reinterpret_cast<const char*>(data), size): the first n bytes
WriteBytes(data, n) ==
    [o \in Offsets |->
        IF o < n THEN ColorByte(data[o \div SIZEOF_COLOR], o % SIZEOF_COLOR) ELSE 0]

\* fin.read(reinterpret_cast<char*>(data), size): the bytes the file holds
\* overwrite the buffer's, the others keep the buffer's value
ReadBytes(data, file) ==
    [i \in Idx |->
        LET byte(k) == IF SIZEOF_COLOR * i + k < file.len
                       THEN file.bytes[SIZEOF_COLOR * i + k]
                       ELSE ColorByte(data[i], k)
        IN  Color(byte(0), byte(1), byte(2), byte(3))]

\* the next channel value the loop visits after v, 256 at the end
NextChan(v) ==
    IF \E u \in ChanVals : u > v
    THEN CHOOSE u \in ChanVals : u > v /\ \A t \in ChanVals : t > v => u <= t
    ELSE 256

\* the axis a filename tag selects
AxisOf(axis_annot) ==
    IF axis_annot = <<"r">> THEN 0
    ELSE IF axis_annot = <<"g">> THEN 1
    ELSE 2

\* the size check of cacheLUTMap and convertMap
BadMapSize(img) == img.w # MAP_SIDE /\ img.h # MAP_SIDE

(***************************************************************************)
(* lut.hpp: cacheLUTMap and loadCacheFromFile, statement by statement.     *)
(* A client calls each at most once, in either order; both name the same   *)
(* cache file.                                                             *)
(***************************************************************************)
LutMaps ==
    {[ok |-> FALSE, w |-> 0, h |-> 0, kind |-> "grad"]}
    \cup [ok : {TRUE}, w : {MAP_SIDE}, h : {MAP_SIDE}, kind : {"grad", "sheer"}]
    \cup [ok : {TRUE}, w : {MAP_SIDE}, h : {1}, kind : {"sheer"}]
    \cup [ok : {TRUE}, w : {2}, h : {MAP_SIDE}, kind : {"grad"}]
    \cup [ok : {TRUE}, w : {100}, h : {MAP_SIDE + 1}, kind : {"grad"}]

LutMapPaths ==
    { <<"m", ".", "p">>,
      <<"m", ".", "r", ".", "p">>,
      <<"m", ".", "G", ".", "p">>,
      <<"m", ".", "b", ".", "p">>,
      <<"d", ".", "r", "/", "m", ".", "p">> }

\* the output_file argument: empty, a file that can be created, one that
\* cannot, and one on a device that fills up during the write
OutputKinds == {"empty", "ok", "nocreate", "full"}

\* the length at which a short file (or a write on a full device) ends: inside
\* the second record
SHORT_LEN == 6

\* entry i of the cache file found on disk
DiskEntry(i) == Color(255 - (i % 256), (i \div 256) % 256, (i \div 65536) % 256, i % 3)

DiskFile(len) ==
    [exists |-> TRUE, len |-> len,
     bytes |-> [o \in Offsets |->
                  IF o < len THEN ColorByte(DiskEntry(o \div SIZEOF_COLOR), o % SIZEOF_COLOR)
                  ELSE 0]]

NoFile == [exists |-> FALSE, len |-> 0, bytes |-> ZeroBytes]

DiskFiles ==
    {NoFile, DiskFile(CACHE_BYTES), DiskFile(SHORT_LEN), DiskFile(CACHE_BYTES - 1),
     DiskFile(CACHE_BYTES + SIZEOF_COLOR)}

NullBuf == [st |-> "null", frees |-> 0, data |-> ZeroData]

\* calls and loadSaw are the client's record: the calls made, in order, and
\* the file (present, length) as loadCacheFromFile found it
ZeroStat ==
    [sampled |-> 0, writes |-> [i \in Idx |-> 0], failbit |-> FALSE,
     calls |-> <<>>, loadSaw |-> <<FALSE, 0>>]

LutIdle ==
    /\ lpc = "idle"
    /\ lloop = <<0, 0, 0>>
    /\ laxis = 2
    /\ lbuf = [cache |-> NullBuf, load |-> NullBuf]
    /\ lstat = ZeroStat
    /\ lret = [cache |-> "none", load |-> "none"]

InitLut ==
    /\ lcfg \in [img : LutMaps, path : LutMapPaths, out : OutputKinds]
    /\ lfile \in DiskFiles
    /\ LutIdle

\* delete[] data
Delete(buf) ==
    IF buf.st = "null" THEN buf
    ELSE [buf EXCEPT !.st = "freed", !.frees = @ + 1, !.data = ZeroData]

\* the client calls cacheLUTMap(input_file, output_file)
CallCacheLUTMap ==
    /\ lpc = "idle" /\ lret.cache = "none"
    /\ lpc' = "c_image"
    /\ lret' = [lret EXCEPT !.cache = "running"]
    /\ lstat' = [lstat EXCEPT !.calls = Append(@, "cache")]
    /\ UNCHANGED <<lcfg, lloop, laxis, lbuf, lfile>>
    /\ UNCHANGED notLutVars

\* line 61: std::make_shared<Image>(input_file), which throws outside the try
CacheImage ==
    /\ lpc = "c_image"
    /\ IF ImageLoads(lcfg.img)
       THEN lpc' = "c_size" /\ lret' = lret
       ELSE lpc' = "idle" /\ lret' = [lret EXCEPT !.cache = "threw_decode"]
    /\ UNCHANGED <<lcfg, lloop, laxis, lbuf, lstat, lfile>>
    /\ UNCHANGED notLutVars

\* lines 62-73: the size check, then the axis from the filename
CacheSize ==
    /\ lpc = "c_size"
    /\ IF BadMapSize(lcfg.img)
       THEN lpc' = "idle" /\ lret' = [lret EXCEPT !.cache = "threw_size"]
            /\ laxis' = laxis
       ELSE lpc' = "c_alloc" /\ lret' = lret
            /\ laxis' = AxisOf(getSecondaryExtensionName(lcfg.path))
    /\ UNCHANGED <<lcfg, lloop, lbuf, lstat, lfile>>
    /\ UNCHANGED notLutVars

\* line 79: new Color[LUT_RAW_DATA_SIZE] {}, or std::bad_alloc, which the
\* catch of line 109 answers with delete[] nullptr and a rethrow
CacheAlloc ==
    /\ lpc = "c_alloc"
    /\ \/ /\ lbuf' = [lbuf EXCEPT !.cache = [st |-> "live", frees |-> 0, data |-> ZeroData]]
          /\ lpc' = "c_loop"
          /\ lloop' = <<0, 0, 0>>
          /\ lret' = lret
       \/ /\ lbuf' = [lbuf EXCEPT !.cache = Delete(@)]
          /\ lpc' = "idle"
          /\ lloop' = lloop
          /\ lret' = [lret EXCEPT !.cache = "threw_alloc"]
    /\ UNCHANGED <<lcfg, laxis, lstat, lfile>>
    /\ UNCHANGED notLutVars

\* one turn of the loop that stores an entry the mapped pixel's neighbour
CacheLoopBodyOffByOne(r, g, b) ==
    LET rgba == Color(r % 256, g % 256, b % 256, 255)
        xy   == rgbToMapPosition(rgba, laxis, TRUE)
    IN  [idx |-> getHexRGB(rgba), px |-> ImageAt(lcfg.img, xy[1] + 1, xy[2])]

\* lines 85-91: one turn of the loop: the entry written and the pixel stored
CacheLoopBody(r, g, b) ==
    LET rgba == Color(r % 256, g % 256, b % 256, 255)
    IN  [idx |-> getHexRGB(rgba),
         px  |-> ImageAtPair(lcfg.img, rgbToMapPosition(rgba, laxis, TRUE))]

\* lines 82-94: one turn of for r, for g, for b, and the step to the next
CacheLoop ==
    /\ lpc = "c_loop"
    /\ LET r  == lloop[1]
           g  == lloop[2]
           b  == lloop[3]
           w  == CacheLoopBody(r, g, b)
           nb == NextChan(b)
           ng == IF nb < 256 THEN g ELSE NextChan(g)
           nr == IF ng < 256 THEN r ELSE NextChan(r)
       IN  /\ lbuf' = [lbuf EXCEPT !.cache.data[w.idx] = w.px]
           /\ lstat' = [lstat EXCEPT !.sampled = @ + 1, !.writes[w.idx] = @ + 1]
           /\ IF nr < 256
              THEN /\ lloop' = <<nr, IF ng < 256 THEN ng ELSE 0, IF nb < 256 THEN nb ELSE 0>>
                   /\ lpc' = "c_loop"
              ELSE /\ lloop' = <<256, 0, 0>>
                   /\ lpc' = "c_write"
    /\ UNCHANGED <<lcfg, laxis, lfile, lret>>
    /\ UNCHANGED notLutVars

\* lines 97-107: the cache file is written when output_file is not empty; a file
\* that cannot be created throws, and the catch of line 109 deletes the buffer.
\* The stream's state after write() is not looked at.
CacheWrite ==
    /\ lpc = "c_write"
    /\ CASE lcfg.out = "empty" ->
              /\ lfile' = lfile
              /\ lbuf' = lbuf
              /\ lret' = [lret EXCEPT !.cache = "ok"]
         [] lcfg.out = "nocreate" ->
              /\ lfile' = lfile
              /\ lbuf' = [lbuf EXCEPT !.cache = Delete(@)]
              /\ lret' = [lret EXCEPT !.cache = "threw_create"]
         [] lcfg.out = "full" ->
              /\ lfile' = [exists |-> TRUE, len |-> SHORT_LEN,
                           bytes |-> WriteBytes(lbuf.cache.data, SHORT_LEN)]
              /\ lbuf' = lbuf
              /\ lret' = [lret EXCEPT !.cache = "ok"]
         [] OTHER ->
              /\ lfile' = [exists |-> TRUE, len |-> CACHE_BYTES,
                           bytes |-> WriteBytes(lbuf.cache.data, CACHE_BYTES)]
              /\ lbuf' = lbuf
              /\ lret' = [lret EXCEPT !.cache = "ok"]
    /\ lpc' = "idle"
    /\ UNCHANGED <<lcfg, lloop, laxis, lstat>>
    /\ UNCHANGED notLutVars

\* the client calls loadCacheFromFile(path)
CallLoadCacheFromFile ==
    /\ lpc = "idle" /\ lret.load = "none"
    /\ lpc' = "l_alloc"
    /\ lret' = [lret EXCEPT !.load = "running"]
    /\ lstat' = [lstat EXCEPT !.calls = Append(@, "load"),
                              !.loadSaw = <<lfile.exists, lfile.len>>]
    /\ UNCHANGED <<lcfg, lloop, laxis, lbuf, lfile>>
    /\ UNCHANGED notLutVars

\* line 125: new Color[LUT_RAW_DATA_SIZE] {}, or std::bad_alloc
LoadAlloc ==
    /\ lpc = "l_alloc"
    /\ \/ /\ lbuf' = [lbuf EXCEPT !.load = [st |-> "live", frees |-> 0, data |-> ZeroData]]
          /\ lpc' = "l_open"
          /\ lret' = lret
       \/ /\ lbuf' = [lbuf EXCEPT !.load = Delete(@)]
          /\ lpc' = "idle"
          /\ lret' = [lret EXCEPT !.load = "threw_alloc"]
    /\ UNCHANGED <<lcfg, lloop, laxis, lstat, lfile>>
    /\ UNCHANGED notLutVars

\* lines 128-134: the file is opened, or the call throws and deletes the buffer
LoadOpen ==
    /\ lpc = "l_open"
    /\ IF lfile.exists
       THEN lpc' = "l_read" /\ lbuf' = lbuf /\ lret' = lret
       ELSE /\ lpc' = "idle"
            /\ lbuf' = [lbuf EXCEPT !.load = Delete(@)]
            /\ lret' = [lret EXCEPT !.load = "threw_open"]
    /\ UNCHANGED <<lcfg, lloop, laxis, lstat, lfile>>
    /\ UNCHANGED notLutVars

\* line 135: fin.read of LUT_RAW_DATA_SIZE * sizeof(Color) bytes; a shorter file
\* sets the fail bit and leaves the rest of the buffer as it was
LoadRead ==
    /\ lpc = "l_read"
    /\ lbuf' = [lbuf EXCEPT !.load.data = ReadBytes(@, lfile)]
    /\ lstat' = [lstat EXCEPT !.failbit = lfile.len < CACHE_BYTES]
    /\ lpc' = "l_check"
    /\ UNCHANGED <<lcfg, lloop, laxis, lfile, lret>>
    /\ UNCHANGED notLutVars

\* a check of the stream that lets a short read through
LoadFailedNever(failbit) == FALSE

\* line 136: fin.fail()
LoadFailed(failbit) == failbit

\* lines 136-145: a failed read throws and deletes the buffer, else the buffer
\* is returned
LoadCheck ==
    /\ lpc = "l_check"
    /\ IF LoadFailed(lstat.failbit)
       THEN /\ lbuf' = [lbuf EXCEPT !.load = Delete(@)]
            /\ lret' = [lret EXCEPT !.load = "threw_invalid"]
       ELSE /\ lbuf' = lbuf
            /\ lret' = [lret EXCEPT !.load = "ok"]
    /\ lpc' = "idle"
    /\ UNCHANGED <<lcfg, lloop, laxis, lstat, lfile>>
    /\ UNCHANGED notLutVars

(***************************************************************************)
(* main.cpp: the program.  argv[1] names a LUT file or a lutmap, "-cube    *)
(* [SAMPLES]" may follow, then the list INPUT [-OUTPUT]...                 *)
(***************************************************************************)
\* the longest list INPUT [-OUTPUT]... the model draws
MaxArgs == 3

\* the arguments of the list: two images that decode, a with an extension
\* save() can write and b with one it cannot (so that b's default output
\* fails), and an output name x that can be written.  An argument with a
\* dash that stands where an input is expected names no file.
Tokens == {"a", "b", "-x"}

ArgLists == UNION {[1..n -> Tokens] : n \in 0..MaxArgs}

\* argv[k][0] == '-'
IsDash(tok) == tok = "-x"

\* std::string { argv[k] }.substr(1)
Substr1(tok) == IF tok = "-x" THEN "x" ELSE ""

\* line 245: the output name made from the input's and the LUT's
DefaultOut(tok) == tok \o "_L"

\* the image files on disk: Image::Image throws for any other path
Decodes(path) == path \in {"a", "b"}

InputImage(path) ==
    CASE path = "a" -> <<Color(0, 0, 0, 255), Color(255, 16, 1, 7)>>
      [] path = "b" -> <<Color(1, 0, 255, 0)>>
      [] OTHER -> <<>>

\* Image::save: the extension has a writer (b's has none)
Writable(path) == path # DefaultOut("b")

OutPaths == {DefaultOut(t) : t \in Tokens} \cup {Substr1("-x")}

\* the entries of the dense LUT the batch reads
MainIdx == {getHexRGB(InputImage(p)[k]) : p \in {"a"}, k \in 1..2}
           \cup {getHexRGB(InputImage("b")[1])}

NoImg == [ok |-> FALSE, w |-> 0, h |-> 0, kind |-> "grad"]

\* A LUT file is its length and what its records hold: the identity table (with
\* alpha 0), the table DiskEntry, or the table convertMap built from a lutmap.
LutFile(kind, len) ==
    [exists |-> TRUE, len |-> len, kind |-> kind, img |-> NoImg, axis |-> 2]

NoLutFile == [exists |-> FALSE, len |-> 0, kind |-> "disk", img |-> NoImg, axis |-> 2]

RawFiles ==
    {NoLutFile, LutFile("identity", CACHE_BYTES), LutFile("disk", CACHE_BYTES),
     LutFile("disk", SHORT_LEN)}

MainMaps ==
    {NoImg}
    \cup [ok : {TRUE}, w : {MAP_SIDE}, h : {MAP_SIDE}, kind : {"sheer"}]
    \cup [ok : {TRUE}, w : {MAP_SIDE}, h : {1}, kind : {"grad"}]
    \cup [ok : {TRUE}, w : {100}, h : {100}, kind : {"grad"}]

MainMapPaths == {<<"m", ".", "p">>, <<"m", ".", "r", ".", "p">>}

\* lines 103-115 of convertMap for one entry: the pixel stored at index i
ConvertEntry(img, axis, i) ==
    LET rgba == Color(i \div 65536, (i \div 256) % 256, i % 256, 255)
    IN  ImageAtPair(img, rgbToPosition(rgba, axis, TRUE))

\* record i of a LUT file
EntryOfFile(f, i) ==
    CASE f.kind = "identity" -> Color(i \div 65536, (i \div 256) % 256, i % 256, 0)
      [] f.kind = "built"    -> ConvertEntry(f.img, f.axis, i)
      [] OTHER               -> DiskEntry(i)

\* line 231: fin.read into the zero-initialised buffer
MainReadEntries(f) ==
    [i \in MainIdx |->
        LET byte(k) == IF SIZEOF_COLOR * i + k < f.len
                       THEN ColorByte(EntryOfFile(f, i), k) ELSE 0
        IN  Color(byte(0), byte(1), byte(2), byte(3))]

MainZero == [i \in MainIdx |-> Color(0, 0, 0, 0)]

FREE == 0 - 1

MAIN == 0

\* std::mutex::lock that does not wait
CanLockAlways(mutex) == TRUE

\* std::mutex::lock returns once the mutex is free
CanLock(mutex) == mutex = FREE

Running == run.exit = "running"

MainIdle ==
    /\ pc = "start"
    /\ rest = <<>>
    /\ cube = [samples |-> 0, map |-> FALSE]
    /\ lutf = NoLutFile
    /\ lut = [st |-> "null", frees |-> 0, data |-> MainZero]
    /\ loopi = 1
    /\ cap = 0
    /\ workers = <<>>
    /\ disk = [p \in OutPaths |-> <<>>]
    /\ coutm = FREE
    /\ cerrm = FREE
    /\ run = [exit |-> "running", failed |-> "none", started |-> 0]

\* lines 142-145: no argument at all
MainUsage ==
    /\ pc = "start"
    /\ pc' = "exit"
    /\ run' = [run EXCEPT !.exit = "0"]
    /\ UNCHANGED <<rest, cube, lutf, lut, loopi, cap, workers, disk, coutm, cerrm>>
    /\ UNCHANGED notMainVars

\* -cube [SAMPLES] after argv[1]: absent (0), without a number (25), or with
\* the number 1
CubeArgs == {0, 25, 1}

\* lines 147-188 and 203: argv[1] is a LUT file (is_lut) or an image; raw is the
\* file raw_file names.  The conversion is skipped when a LUT file is given and
\* an input follows it, or when raw_file exists and no cube is wanted.
MainStart ==
    /\ pc = "start"
    /\ \E is_lut \in BOOLEAN, cube_arg \in CubeArgs, args \in ArgLists, raw \in RawFiles :
          LET want_cube == cube_arg # 0
              argc2     == ~want_cube /\ args = <<>>
              dash      == want_cube \/ (args # <<>> /\ IsDash(args[1]))
              enter     == argc2 \/ dash \/ ~is_lut
              use_raw   == ~enter \/ (raw.exists /\ ~want_cube)
          IN  /\ rest' = args
              /\ IF use_raw
                 THEN /\ lutf' = raw
                      /\ cube' = cube
                      /\ IF argc2
                         THEN pc' = "exit" /\ run' = [run EXCEPT !.exit = "0"]
                         ELSE pc' = "alloc" /\ run' = run
                 ELSE IF want_cube /\ is_lut
                 THEN /\ lutf' = raw
                      /\ cube' = cube
                      /\ pc' = "exit"
                      /\ run' = [run EXCEPT !.exit = "1", !.failed = "build"]
                 ELSE /\ lutf' = raw
                      /\ cube' = [samples |-> cube_arg, map |-> ~is_lut]
                      /\ pc' = "convert"
                      /\ run' = run
    /\ UNCHANGED <<lut, loopi, cap, workers, disk, coutm, cerrm>>
    /\ UNCHANGED notMainVars

\* sampleSpan's check of its count
TooFewSamples(samples) == samples < 2

\* lines 189-201 with convertMap (lines 81-139): the map is decoded and checked,
\* the table built and written to raw_file, the cube file made on demand.  An
\* exception ends the program with status 1.
MainConvert ==
    /\ pc = "convert"
    /\ \E img \in MainMaps, path \in MainMapPaths, out \in {"ok", "nocreate", "full"},
          alloc_ok \in BOOLEAN :
          LET decoded == cube.map /\ ImageLoads(img)
              built   == [exists |-> TRUE, len |-> CACHE_BYTES, kind |-> "built",
                          img |-> img,
                          axis |-> AxisOf(getSecondaryExtensionName(path))]
              written == IF out = "full" THEN [built EXCEPT !.len = SHORT_LEN] ELSE built
              threw   == \/ ~decoded
                         \/ BadMapSize(img)
                         \/ ~alloc_ok
                         \/ out = "nocreate"
                         \/ (cube.samples # 0 /\ TooFewSamples(cube.samples))
              wrote   == decoded /\ ~BadMapSize(img) /\ alloc_ok /\ out # "nocreate"
          IN  /\ lutf' = IF wrote THEN written ELSE lutf
              /\ IF threw
                 THEN pc' = "exit" /\ run' = [run EXCEPT !.exit = "1", !.failed = "build"]
                 ELSE IF rest = <<>>
                 THEN pc' = "exit" /\ run' = [run EXCEPT !.exit = "0"]
                 ELSE pc' = "alloc" /\ run' = run
    /\ cube' = [samples |-> 0, map |-> FALSE]
    /\ UNCHANGED <<rest, lut, loopi, cap, workers, disk, coutm, cerrm>>
    /\ UNCHANGED notMainVars

\* lines 212-221: workers.reserve(argc - 2), argc counting the LUT argument and
\* the list; then new Color[LUT_RAW_DATA_SIZE] {}, or std::bad_alloc
MainAlloc ==
    /\ pc = "alloc"
    /\ cap' = Len(rest) + 1 - 2
    /\ \/ /\ lut' = [st |-> "live", frees |-> 0, data |-> MainZero]
          /\ pc' = "read"
          /\ run' = run
       \/ /\ lut' = lut
          /\ pc' = "catch"
          /\ run' = [run EXCEPT !.failed = "load"]
    /\ UNCHANGED <<rest, cube, lutf, loopi, workers, disk, coutm, cerrm>>
    /\ UNCHANGED notMainVars

\* lines 224-235: the LUT file is opened and read; a file that does not open or
\* is too short throws
MainRead ==
    /\ pc = "read"
    /\ IF ~lutf.exists
       THEN lut' = lut /\ pc' = "catch" /\ run' = [run EXCEPT !.failed = "load"]
       ELSE /\ lut' = [lut EXCEPT !.data = MainReadEntries(lutf)]
            /\ IF LoadFailed(lutf.len < CACHE_BYTES)
               THEN pc' = "catch" /\ run' = [run EXCEPT !.failed = "load"]
               ELSE pc' = "assign" /\ run' = run
    /\ loopi' = 1
    /\ UNCHANGED <<rest, cube, lutf, cap, workers, disk, coutm, cerrm>>
    /\ UNCHANGED notMainVars

\* lines 240-245: the unit the loop makes at i: its input, its output, and
\* the i it goes on with
UnitAt(args, i) ==
    LET has_out == i < Len(args) /\ IsDash(args[i + 1])
    IN  [in   |-> args[i],
         out  |-> IF has_out THEN Substr1(args[i + 1]) ELSE DefaultOut(args[i]),
         next |-> IF has_out THEN i + 2 ELSE i + 1]

NewWorker(u) ==
    [in |-> u.in, out |-> u.out, pc |-> "run", img |-> <<>>, saved |-> <<>>,
     rep |-> "none", joined |-> FALSE]

\* std::vector::emplace_back at size() = capacity(): the capacity after the
\* reallocation
GrownCap(size) == IF size = 0 THEN 1 ELSE 2 * size

\* lines 238-270: one turn of the job loop.  emplace_back starts the thread in
\* the vector; with the vector full it first reallocates, and the elements it
\* moved away are destroyed next (MainRelocate).  std::thread's constructor and
\* the allocation may throw, which the catch of line 272 takes.
MainAssign ==
    /\ pc = "assign"
    /\ IF loopi > Len(rest)
       THEN /\ pc' = "clear"
            /\ UNCHANGED <<loopi, workers, cap, run>>
       ELSE LET u == UnitAt(rest, loopi)
            IN  \/ /\ workers' = Append(workers, NewWorker(u))
                   /\ loopi' = u.next
                   /\ run' = [run EXCEPT !.started = @ + 1]
                   /\ IF Len(workers) = cap
                      THEN /\ cap' = GrownCap(Len(workers))
                           /\ pc' = IF Len(workers) >= 1 THEN "relocate" ELSE "assign"
                      ELSE /\ cap' = cap
                           /\ pc' = "assign"
                \/ /\ pc' = "catch"
                   /\ run' = [run EXCEPT !.failed = "assign"]
                   /\ loopi' = u.next
                   /\ UNCHANGED <<workers, cap>>
    /\ UNCHANGED <<rest, cube, lutf, lut, disk, coutm, cerrm>>
    /\ UNCHANGED notMainVars

\* thread_guard.hpp lines 38-40 during the reallocation: ~ThreadGuard joins a
\* thread that was moved from; join() throws std::system_error out of a
\* noexcept destructor, and std::terminate ends the process
MainRelocate ==
    /\ pc = "relocate"
    /\ pc' = "exit"
    /\ run' = [run EXCEPT !.exit = "abort"]
    /\ UNCHANGED <<rest, cube, lutf, lut, loopi, cap, workers, disk, coutm, cerrm>>
    /\ UNCHANGED notMainVars

\* lines 272-273: the catch locks cerr_mutex
MainCatchLock ==
    /\ pc = "catch"
    /\ CanLock(cerrm)
    /\ cerrm' = MAIN
    /\ pc' = "catch_write"
    /\ UNCHANGED <<rest, cube, lutf, lut, loopi, cap, workers, disk, coutm, run>>
    /\ UNCHANGED notMainVars

\* lines 274-275: the error line is written and the lock released
MainCatchUnlock ==
    /\ pc = "catch_write"
    /\ cerrm' = FREE
    /\ pc' = "clear"
    /\ UNCHANGED <<rest, cube, lutf, lut, loopi, cap, workers, disk, coutm, run>>
    /\ UNCHANGED notMainVars

\* the first element of the vector not yet destroyed, 0 when there is none
FirstUnjoined ==
    IF \E k \in 1..Len(workers) : ~workers[k].joined
    THEN CHOOSE k \in 1..Len(workers) :
            ~workers[k].joined /\ \A j \in 1..(k - 1) : workers[j].joined
    ELSE 0

\* a clear() that would not wait: the guard gone without a join
MainJoinDetached ==
    /\ pc = "clear"
    /\ FirstUnjoined # 0
    /\ workers' = [workers EXCEPT ![FirstUnjoined].joined = TRUE]
    /\ UNCHANGED <<pc, rest, cube, lutf, lut, loopi, cap, disk, coutm, cerrm, run>>
    /\ UNCHANGED notMainVars

\* line 277: workers.clear() destroys the elements in order; ~ThreadGuard
\* (thread_guard.hpp lines 38-40) joins, which waits for the thread to end
MainJoin ==
    /\ pc = "clear"
    /\ FirstUnjoined # 0
    /\ workers[FirstUnjoined].pc = "done"
    /\ workers' = [workers EXCEPT ![FirstUnjoined].joined = TRUE]
    /\ UNCHANGED <<pc, rest, cube, lutf, lut, loopi, cap, disk, coutm, cerrm, run>>
    /\ UNCHANGED notMainVars

\* lines 279-281: delete[] lut; return 0
MainReturn ==
    /\ pc = "clear"
    /\ FirstUnjoined = 0
    /\ lut' = IF lut.st = "null" THEN lut
              ELSE [lut EXCEPT !.st = "freed", !.frees = @ + 1]
    /\ pc' = "exit"
    /\ run' = [run EXCEPT !.exit = "0"]
    /\ UNCHANGED <<rest, cube, lutf, loopi, cap, workers, disk, coutm, cerrm>>
    /\ UNCHANGED notMainVars

(***************************************************************************)
(* main.cpp lines 247-269: the worker thread of one unit                   *)
(***************************************************************************)
\* a loop body that keeps the alpha the LUT stores
MapPixelKeepLutAlpha(table, px) == table[getHexRGB(px)]

\* lines 254-256: mapped = lut[px.getHexRGB()]; mapped.a = px.a; px = mapped
MapPixel(table, px) == [table[getHexRGB(px)] EXCEPT !.a = px.a]

\* lines 253-257: the loop over the pixels of the image
ApplyLUT(table, image) == [k \in 1..Len(image) |-> MapPixel(table, image[k])]

\* lines 253-257: what the loop leaves in the table: "mapped" is a copy
LutAfterApply(table, image) == table

\* lines 250-257: the image is decoded (or the unit goes to its catch) and
\* every pixel replaced
WorkerApply(k) ==
    /\ Running
    /\ workers[k].pc = "run"
    /\ IF Decodes(workers[k].in)
       THEN /\ workers' = [workers EXCEPT
                  ![k].img = ApplyLUT(lut.data, InputImage(workers[k].in)),
                  ![k].pc = "save"]
            /\ lut' = [lut EXCEPT !.data = LutAfterApply(@, InputImage(workers[k].in))]
       ELSE /\ workers' = [workers EXCEPT ![k].pc = "want_cerr"]
            /\ lut' = lut
    /\ UNCHANGED <<pc, rest, cube, lutf, loopi, cap, disk, coutm, cerrm, run>>
    /\ UNCHANGED notMainVars

\* line 260: img.save(output_file), which throws when nothing is written
WorkerSave(k) ==
    /\ Running
    /\ workers[k].pc = "save"
    /\ IF Writable(workers[k].out)
       THEN /\ disk' = [disk EXCEPT ![workers[k].out] = workers[k].img]
            /\ workers' = [workers EXCEPT ![k].saved = workers[k].img,
                                          ![k].img = <<>>,
                                          ![k].pc = "want_cout"]
       ELSE /\ disk' = disk
            /\ workers' = [workers EXCEPT ![k].img = <<>>, ![k].pc = "want_cerr"]
    /\ UNCHANGED <<pc, rest, cube, lutf, lut, loopi, cap, coutm, cerrm, run>>
    /\ UNCHANGED notMainVars

\* line 261: std::lock_guard on cout_mutex
WorkerLockCout(k) ==
    /\ Running
    /\ workers[k].pc = "want_cout"
    /\ CanLock(coutm)
    /\ coutm' = k
    /\ workers' = [workers EXCEPT ![k].pc = "write_cout"]
    /\ UNCHANGED <<pc, rest, cube, lutf, lut, loopi, cap, disk, cerrm, run>>
    /\ UNCHANGED notMainVars

\* lines 262-263: "saved: ..." is written, the lock released, the thread ends
WorkerUnlockCout(k) ==
    /\ Running
    /\ workers[k].pc = "write_cout"
    /\ coutm' = FREE
    /\ workers' = [workers EXCEPT ![k].pc = "done", ![k].rep = "saved"]
    /\ UNCHANGED <<pc, rest, cube, lutf, lut, loopi, cap, disk, cerrm, run>>
    /\ UNCHANGED notMainVars

\* lines 264-266: the unit's catch locks cerr_mutex
WorkerLockCerr(k) ==
    /\ Running
    /\ workers[k].pc = "want_cerr"
    /\ CanLock(cerrm)
    /\ cerrm' = k
    /\ workers' = [workers EXCEPT ![k].pc = "write_cerr"]
    /\ UNCHANGED <<pc, rest, cube, lutf, lut, loopi, cap, disk, coutm, run>>
    /\ UNCHANGED notMainVars

\* lines 267-268: "error: ..." is written, the lock released, the thread ends
WorkerUnlockCerr(k) ==
    /\ Running
    /\ workers[k].pc = "write_cerr"
    /\ cerrm' = FREE
    /\ workers' = [workers EXCEPT ![k].pc = "done", ![k].rep = "error"]
    /\ UNCHANGED <<pc, rest, cube, lutf, lut, loopi, cap, disk, coutm, run>>
    /\ UNCHANGED notMainVars

ApplyStep == \E k \in 1..Len(workers) : WorkerApply(k)
SaveStep == \E k \in 1..Len(workers) : WorkerSave(k)
LockCoutStep == \E k \in 1..Len(workers) : WorkerLockCout(k)
UnlockCoutStep == \E k \in 1..Len(workers) : WorkerUnlockCout(k)
LockCerrStep == \E k \in 1..Len(workers) : WorkerLockCerr(k)
UnlockCerrStep == \E k \in 1..Len(workers) : WorkerUnlockCerr(k)

(***************************************************************************)
(* IEEE-754 binary64 as sampleSpan uses it (lut.hpp lines 43-50).  A       *)
(* double is a sign and a magnitude; the magnitude is a fixed-point number *)
(* of LIMBS limbs of LIMB_BITS bits, lowest limb first, the lowest         *)
(* FRAC_LIMBS of them after the binary point.  Every operation computes    *)
(* the exact result and rounds it to DBL_MANT_DIG significant bits, ties   *)
(* to even.                                                                *)
(***************************************************************************)
LIMB_BITS == 16

LIMBS == 6

\* limbs after the binary point: enough for 1.0 / d with d < 2^11
FRAC_LIMBS == 4

DBL_MANT_DIG == 53

RECURSIVE Pow2(_)
Pow2(n) == IF n = 0 THEN 1 ELSE 2 * Pow2(n - 1)

LIMB_BASE == Pow2(LIMB_BITS)

ZeroBits == [j \in 1..LIMBS |-> 0]

\* the magnitude of the integer n, 0 <= n < LIMB_BASE
IntBits(n) == [j \in 1..LIMBS |-> IF j = FRAC_LIMBS + 1 THEN n ELSE 0]

\* bit n of a, the lowest being bit 1
BitAt(a, n) == (a[(n - 1) \div LIMB_BITS + 1] \div Pow2((n - 1) % LIMB_BITS)) % 2

\* the magnitude with bit n alone set
OneBit(n) ==
    [j \in 1..LIMBS |->
        IF j = (n - 1) \div LIMB_BITS + 1 THEN Pow2((n - 1) % LIMB_BITS) ELSE 0]

RECURSIVE AddFrom(_, _, _, _)
AddFrom(a, b, j, carry) ==
    IF j > LIMBS THEN <<>>
    ELSE <<(a[j] + b[j] + carry) % LIMB_BASE>>
             \o AddFrom(a, b, j + 1, (a[j] + b[j] + carry) \div LIMB_BASE)

\* a + b, exact
AddBits(a, b) == AddFrom(a, b, 1, 0)

RECURSIVE SubFrom(_, _, _, _)
SubFrom(a, b, j, borrow) ==
    IF j > LIMBS THEN <<>>
    ELSE <<(a[j] - b[j] - borrow + LIMB_BASE) % LIMB_BASE>>
             \o SubFrom(a, b, j + 1, IF a[j] - b[j] - borrow < 0 THEN 1 ELSE 0)

\* a - b for a >= b, exact
SubBits(a, b) == SubFrom(a, b, 1, 0)

\* a >= b
GeBits(a, b) ==
    \/ a = b
    \/ \E j \in 1..LIMBS : a[j] > b[j] /\ \A k \in (j + 1)..LIMBS : a[k] = b[k]

RECURSIVE MulFrom(_, _, _, _)
MulFrom(a, m, j, carry) ==
    IF j > LIMBS THEN <<>>
    ELSE <<(a[j] * m + carry) % LIMB_BASE>>
             \o MulFrom(a, m, j + 1, (a[j] * m + carry) \div LIMB_BASE)

\* a * m for an integer m, 0 <= m < 2^12, exact
MulBits(a, m) == MulFrom(a, m, 1, 0)

RECURSIVE DivFrom(_, _, _, _)
\* limbs j..1 of the quotient of a by the integer d, 0 < d < 2^15
DivFrom(a, d, j, rem) ==
    IF j = 0 THEN <<>>
    ELSE DivFrom(a, d, j - 1, (rem * LIMB_BASE + a[j]) % d)
             \o <<(rem * LIMB_BASE + a[j]) \div d>>

RECURSIVE RemFrom(_, _, _, _)
\* what the division leaves
RemFrom(a, d, j, rem) ==
    IF j = 0 THEN rem ELSE RemFrom(a, d, j - 1, (rem * LIMB_BASE + a[j]) % d)

\* the place of the highest bit set, 0 when none is
MsbOf(a) ==
    IF a = ZeroBits THEN 0
    ELSE LET top == CHOOSE j \in 1..LIMBS : a[j] # 0 /\ \A k \in (j + 1)..LIMBS : a[k] = 0
         IN  (top - 1) * LIMB_BITS
               + (CHOOSE n \in 1..LIMB_BITS : Pow2(n - 1) <= a[top] /\ a[top] < Pow2(n))

\* a with its bits 1..cut cleared
Truncated(a, cut) ==
    [j \in 1..LIMBS |->
        IF j * LIMB_BITS <= cut THEN 0
        ELSE IF (j - 1) * LIMB_BITS >= cut THEN a[j]
        ELSE a[j] - (a[j] % Pow2(cut - (j - 1) * LIMB_BITS))]

\* the exact value a (plus a nonzero part below the lowest bit when sticky)
\* rounded to DBL_MANT_DIG significant bits, ties to even
RoundBits(a, sticky) ==
    LET cut == MsbOf(a) - DBL_MANT_DIG
    IN  IF cut <= 0 THEN a
        ELSE IF /\ BitAt(a, cut) = 1
                /\ \/ sticky
                   \/ \E n \in 1..(cut - 1) : BitAt(a, n) = 1
                   \/ BitAt(a, cut + 1) = 1
             THEN AddBits(Truncated(a, cut), OneBit(cut + 1))
             ELSE Truncated(a, cut)

Double(neg, mag) == [neg |-> neg, mag |-> mag]

\* static_cast<double>(n) for an int n
DoubleOf(n) == Double(n < 0, IntBits(IF n < 0 THEN 0 - n ELSE n))

\* 1.0 / d for an int d > 0
DoubleRecip(d) ==
    Double(FALSE, RoundBits(DivFrom(IntBits(1), d, LIMBS, 0),
                             RemFrom(IntBits(1), d, LIMBS, 0) # 0))

\* n * x for an int n and a double x
DoubleMulInt(n, x) ==
    Double(n # 0 /\ ((n < 0) # x.neg),
           RoundBits(MulBits(x.mag, IF n < 0 THEN 0 - n ELSE n), FALSE))

\* x + y
DoubleAdd(x, y) ==
    IF x.neg = y.neg THEN Double(x.neg, RoundBits(AddBits(x.mag, y.mag), FALSE))
    ELSE IF x.mag = y.mag THEN Double(FALSE, ZeroBits)
    ELSE IF GeBits(x.mag, y.mag)
         THEN Double(x.neg, RoundBits(SubBits(x.mag, y.mag), FALSE))
         ELSE Double(y.neg, RoundBits(SubBits(y.mag, x.mag), FALSE))

RECURSIVE IntFrom(_, _)
\* the integer the limbs from j on hold
IntFrom(a, j) == IF j > LIMBS THEN 0 ELSE a[j] + LIMB_BASE * IntFrom(a, j + 1)

\* the integer part of a
IntPart(a) == IntFrom(a, FRAC_LIMBS + 1)

\* static_cast<int>(std::round(x)): halves go away from zero
StdRound(x) ==
    IF x.neg
    THEN 0 - (IntPart(x.mag) + BitAt(x.mag, FRAC_LIMBS * LIMB_BITS))
    ELSE IntPart(x.mag) + BitAt(x.mag, FRAC_LIMBS * LIMB_BITS)

\* operator<< with std::fixed and precision(6), for 0 <= x < 2^11: the digits
\* printed, as the integer they spell without the point; the exact value is
\* rounded to six decimals, a tie going to the even digit
Fixed6(x) ==
    LET y == MulBits(MulBits(x.mag, 1000), 1000)
        half == BitAt(y, FRAC_LIMBS * LIMB_BITS) = 1
        below == \E n \in 1..(FRAC_LIMBS * LIMB_BITS - 1) : BitAt(y, n) = 1
    IN  IF half /\ (below \/ IntPart(y) % 2 = 1) THEN IntPart(y) + 1 ELSE IntPart(y)

(***************************************************************************)
(* lut.hpp lines 39-53 (and main.cpp lines 30-44): sampleSpan              *)
(***************************************************************************)
\* line 43: step = (end - begin) * (1.0 / (samples - 1))
SampleStep(begin, end, samples) == DoubleMulInt(end - begin, DoubleRecip(samples - 1))

RECURSIVE SampleLoop(_, _, _, _)
\* lines 47-51: the loop from i on, v being the running value
SampleLoop(v, step, i, samples) ==
    IF i >= samples THEN <<>>
    ELSE <<StdRound(v)>> \o SampleLoop(DoubleAdd(v, step), step, i + 1, samples)

\* sampleSpan(begin, end, samples): it throws, or returns the sample points
sampleSpan(begin, end, samples) ==
    IF samples < 2 THEN [threw |-> TRUE, points |-> <<>>]
    ELSE [threw |-> FALSE,
          points |-> SampleLoop(DoubleOf(begin), SampleStep(begin, end, samples),
                                0, samples)]

\* the sampler harness before a call
SamplerIdle ==
    /\ sIn = [begin |-> 0, end |-> 0, samples |-> 0]
    /\ sOut = [done |-> FALSE, threw |-> FALSE, points |-> <<>>]

(***************************************************************************)
(* cube.hpp lines 15-48 (and main.cpp lines 46-79): generateCube           *)
(***************************************************************************)
\* the largest cube_res handed to generateCube
MaxRes == 3

\* cube_res: one that sampleSpan refuses, and the sizes from 2 on
CubeSizes == {1} \cup 2..MaxRes

\* the channel values sampleSpan(0, 255, cube_res) yields for these sizes
CubePoints ==
    UNION {{sampleSpan(0, 255, n).points[k] : k \in 1..n} : n \in 2..MaxRes}

\* the entries of the dense LUT generateCube reads
CubeIdx ==
    {getHexRGB(Color(r, g, b, 255)) : r \in CubePoints, g \in CubePoints, b \in CubePoints}

\* the tables handed to generateCube: the identity, the table of a cache file,
\* and one built from a lutmap
CubeFiles ==
    {LutFile("identity", CACHE_BYTES), LutFile("disk", CACHE_BYTES),
     [LutFile("built", CACHE_BYTES) EXCEPT
         !.img = [ok |-> TRUE, w |-> MAP_SIDE, h |-> MAP_SIDE, kind |-> "sheer"],
         !.axis = 0]}

CubeTable(f) == [i \in CubeIdx |-> EntryOfFile(f, i)]

NoCubeFile == [exists |-> FALSE, size |-> 0, lines |-> <<>>]

CubeIdle ==
    /\ gcfg = [data |-> CubeTable(LutFile("identity", CACHE_BYTES)),
               cube_res |-> 2, creatable |-> TRUE]
    /\ gpc = "idle"
    /\ gloop = <<0, 0, 0>>
    /\ gpts = <<>>
    /\ gfile = NoCubeFile

InitCubeCall ==
    /\ gcfg \in [data : {CubeTable(f) : f \in CubeFiles}, cube_res : CubeSizes,
                 creatable : BOOLEAN]
    /\ gpc = "idle"
    /\ gloop = <<0, 0, 0>>
    /\ gpts = <<>>
    /\ gfile = NoCubeFile

\* line 41: quantization_factor = 1. / 255.
QuantizationFactor == DoubleRecip(255)

\* lines 42-44 for one channel: the digits of channel * quantization_factor
CubeValue(channel) == Fixed6(DoubleMulInt(channel, QuantizationFactor))

\* a loop body that takes the red sample at b_index and the blue one at r_index
CubeLineBlueFastest(data, points, b_index, g_index, r_index) ==
    LET rgba == data[getHexRGB(Color(points[b_index + 1], points[g_index + 1],
                                     points[r_index + 1], 255))]
    IN  <<CubeValue(rgba.r), CubeValue(rgba.g), CubeValue(rgba.b)>>

\* lines 33-44: the loop body: the entry at the sampled triple, as a data line
CubeLine(data, points, b_index, g_index, r_index) ==
    LET rgba == data[getHexRGB(Color(points[r_index + 1], points[g_index + 1],
                                     points[b_index + 1], 255))]
    IN  <<CubeValue(rgba.r), CubeValue(rgba.g), CubeValue(rgba.b)>>

\* the client calls generateCube(data, cube_res, output_file)
CallGenerateCube ==
    /\ gpc = "idle"
    /\ gpc' = "open"
    /\ UNCHANGED <<gcfg, gloop, gpts, gfile>>
    /\ UNCHANGED notCubeVars

\* lines 16-27: the file is created and truncated, or the call throws; then the
\* comment, TITLE and LUT_3D_SIZE are written
CubeOpen ==
    /\ gpc = "open"
    /\ IF gcfg.creatable
       THEN /\ gfile' = [exists |-> TRUE, size |-> gcfg.cube_res, lines |-> <<>>]
            /\ gpc' = "span"
       ELSE /\ gfile' = gfile
            /\ gpc' = "threw"
    /\ UNCHANGED <<gcfg, gloop, gpts>>
    /\ UNCHANGED notCubeVars

\* line 29: sample_points = sampleSpan(0, 255, cube_res), which may throw
CubeSpan ==
    /\ gpc = "span"
    /\ IF sampleSpan(0, 255, gcfg.cube_res).threw
       THEN /\ gpc' = "threw"
            /\ gpts' = gpts
       ELSE /\ gpc' = "loop"
            /\ gpts' = sampleSpan(0, 255, gcfg.cube_res).points
    /\ gloop' = <<0, 0, 0>>
    /\ UNCHANGED <<gcfg, gfile>>
    /\ UNCHANGED notCubeVars

\* lines 30-47: one turn of for b_index, for g_index, for r_index
CubeLoop ==
    /\ gpc = "loop"
    /\ LET b_index == gloop[1]
           g_index == gloop[2]
           r_index == gloop[3]
           res == gcfg.cube_res
       IN  IF b_index >= res
           THEN /\ gpc' = "returned"
                /\ UNCHANGED <<gloop, gfile>>
           ELSE /\ gfile' = [gfile EXCEPT !.lines =
                               Append(@, CubeLine(gcfg.data, gpts, b_index, g_index, r_index))]
                /\ gloop' = IF r_index + 1 < res THEN <<b_index, g_index, r_index + 1>>
                            ELSE IF g_index + 1 < res THEN <<b_index, g_index + 1, 0>>
                            ELSE <<b_index + 1, 0, 0>>
                /\ gpc' = "loop"
    /\ UNCHANGED <<gcfg, gpts>>
    /\ UNCHANGED notCubeVars

(***************************************************************************)
(* The mapper as a pure function: two colors, an axis and a flip flag are  *)
(* drawn, and both mappers are applied to both colors.                     *)
(***************************************************************************)
\* channel values of the mapper's inputs: both parities of the slice
\* remainder and of the slice quotient, and the ends of the range
MapperChan == {0, 1, 16, 47, 255}

MapperAlpha == {0, 255}

MapperColors == {Color(r, g, b, a) : r \in MapperChan, g \in MapperChan,
                                     b \in MapperChan, a \in MapperAlpha}

MapperOthers == {Color(r, g, b, 255) : r \in MapperChan, g \in MapperChan,
                                       b \in MapperChan}

NoPositions ==
    [done |-> FALSE, lib1 |-> <<0, 0>>, lib2 |-> <<0, 0>>,
     app1 |-> <<0, 0>>, app2 |-> <<0, 0>>]

MapperIdle ==
    /\ mIn = [c1 |-> Color(0, 0, 0, 0), c2 |-> Color(0, 0, 0, 255),
              axis |-> 0, flip |-> FALSE]
    /\ mOut = NoPositions

InitMapper ==
    /\ MainIdle
    /\ SamplerIdle
    /\ CubeIdle
    /\ lcfg = [img |-> [ok |-> FALSE, w |-> 0, h |-> 0, kind |-> "grad"],
               path |-> <<"m", ".", "p">>, out |-> "empty"]
    /\ lfile = NoFile
    /\ LutIdle
    /\ mIn \in [c1 : MapperColors, c2 : MapperOthers, axis : {0, 1, 2}, flip : BOOLEAN]
    /\ mOut = NoPositions

ApplyMapper ==
    /\ ~mOut.done
    /\ mOut' = [done |-> TRUE,
                lib1 |-> rgbToMapPosition(mIn.c1, mIn.axis, mIn.flip),
                 lib2 |-> rgbToMapPosition(mIn.c2, mIn.axis, mIn.flip),
                app1 |-> rgbToPosition(mIn.c1, mIn.axis, mIn.flip),
                app2 |-> rgbToPosition(mIn.c2, mIn.axis, mIn.flip)]
    /\ UNCHANGED mIn
    /\ UNCHANGED notMapperVars

NextMapper == ApplyMapper

SpecMapper == InitMapper /\ [][NextMapper]_vars

(***************************************************************************)
(* The library under a client                                              *)
(***************************************************************************)
InitLib == MapperIdle /\ SamplerIdle /\ CubeIdle /\ MainIdle /\ InitLut

NextLib ==
    \/ CallCacheLUTMap
    \/ CacheImage
    \/ CacheSize
    \/ CacheAlloc
    \/ CacheLoop
    \/ CacheWrite
    \/ CallLoadCacheFromFile
    \/ LoadAlloc
    \/ LoadOpen
    \/ LoadRead
    \/ LoadCheck

SpecLib == InitLib /\ [][NextLib]_vars

(***************************************************************************)
(* The program                                                             *)
(***************************************************************************)
LibIdle ==
    /\ lcfg = [img |-> NoImg, path |-> <<"m", ".", "p">>, out |-> "empty"]
    /\ lfile = NoFile
    /\ LutIdle

InitMain == MapperIdle /\ SamplerIdle /\ CubeIdle /\ LibIdle /\ MainIdle

NextMain ==
    \/ MainUsage
    \/ MainStart
    \/ MainConvert
    \/ MainAlloc
    \/ MainRead
    \/ MainAssign
    \/ MainRelocate
    \/ MainCatchLock
    \/ MainCatchUnlock
    \/ MainJoin
    \/ MainReturn
    \/ ApplyStep
    \/ SaveStep
    \/ LockCoutStep
    \/ UnlockCoutStep
    \/ LockCerrStep
    \/ UnlockCerrStep

SpecMain == InitMain /\ [][NextMain]_vars

(***************************************************************************)
(* The span sampler as a pure function: begin, end and samples are drawn   *)
(* and sampleSpan applied.                                                 *)
(***************************************************************************)
\* the largest count of samples drawn, besides the default of -cube
MaxSamples == 7

DEFAULT_SAMPLES == 25

\* ends of the span: both orders, both signs, odd and even differences
SpanEnds == {0 - 3, 0, 1, 2, 7, 255}

SpanCounts == 0..MaxSamples \cup {DEFAULT_SAMPLES}

InitSampler ==
    /\ MapperIdle
    /\ CubeIdle
    /\ LibIdle
    /\ MainIdle
    /\ sIn \in [begin : SpanEnds, end : SpanEnds, samples : SpanCounts]
    /\ sOut = [done |-> FALSE, threw |-> FALSE, points |-> <<>>]

ApplySampleSpan ==
    /\ ~sOut.done
    /\ sOut' = [done |-> TRUE,
                threw |-> sampleSpan(sIn.begin, sIn.end, sIn.samples).threw,
                points |-> sampleSpan(sIn.begin, sIn.end, sIn.samples).points]
    /\ UNCHANGED sIn
    /\ UNCHANGED notSamplerVars

NextSampler == ApplySampleSpan

SpecSampler == InitSampler /\ [][NextSampler]_vars

(***************************************************************************)
(* The cube exporter under a client                                        *)
(***************************************************************************)
InitCube == MapperIdle /\ SamplerIdle /\ LibIdle /\ MainIdle /\ InitCubeCall

NextCube ==
    \/ CallGenerateCube
    \/ CubeOpen
    \/ CubeSpan
    \/ CubeLoop

SpecCube == InitCube /\ [][NextCube]_vars

InRange(p) == p[1] \in 0..(MAP_SIDE - 1) /\ p[2] \in 0..(MAP_SIDE - 1)

\* C1: for every axis and flip flag both mappers send a color into
\* [0,4095]x[0,4095], send two colors to the same position exactly when the
\* colors agree in R, G and B (alpha plays no part), and agree with each other.
C1_MapperBijective ==
    mOut.done =>
        /\ InRange(mOut.lib1) /\ InRange(mOut.lib2)
        /\ InRange(mOut.app1) /\ InRange(mOut.app2)
        /\ (mOut.lib1 = mOut.lib2) <=> SameRGB(mIn.c1, mIn.c2)
        /\ (mOut.app1 = mOut.app2) <=> SameRGB(mIn.c1, mIn.c2)

\* two colors of different alpha and equal R, G, B, mapped with flip set on an
\* odd slice value, and reaching the far corner tile
C1_Witness ==
    /\ mOut.done
    /\ mIn.flip /\ mIn.axis = 0
    /\ mIn.c1.a # mIn.c2.a /\ SameRGB(mIn.c1, mIn.c2)
    /\ mIn.c1.r = 255
    /\ mOut.lib1[1] >= 15 * 256 /\ mOut.lib1[2] >= 15 * 256
(***************************************************************************)
(* Claims about lut.hpp                                                    *)
(***************************************************************************)
Ended(r) == r \notin {"none", "running"}

ExactSize(img) == img.w = MAP_SIDE /\ img.h = MAP_SIDE

\* C2: a decoded lutmap that is not exactly 4096x4096 is rejected with the
\* size error, before the buffer is allocated and before a pixel is sampled.
C2_RejectsNonExact ==
    (ImageLoads(lcfg.img) /\ ~ExactSize(lcfg.img)) =>
        /\ lbuf.cache.st = "null"
        /\ lstat.sampled = 0
        /\ Ended(lret.cache) => lret.cache = "threw_size"

\* what the code does instead: a map is rejected, before allocation and
\* sampling, when both its width and its height differ from 4096
C2_RejectsWhenBothOff ==
    (ImageLoads(lcfg.img) /\ lcfg.img.w # MAP_SIDE /\ lcfg.img.h # MAP_SIDE) =>
        /\ lbuf.cache.st = "null"
        /\ lstat.sampled = 0
        /\ Ended(lret.cache) => lret.cache = "threw_size"

C3_TagAxis ==
    LET tag == getSecondaryExtensionName(lcfg.path)
    IN  IF tag = <<"r">> THEN 0 ELSE IF tag = <<"g">> THEN 1 ELSE 2

\* C3: after a successful build, the entry at (R<<16)|(G<<8)|B is the lutmap
\* pixel sampled (clamped to the picture) at the mapper's position for
\* (R,G,B), flip set, axis by the filename tag; on a 4096x4096 map that is the
\* pixel at row y, column x; the index is one-to-one into 0..2^24-1 and every
\* entry is written exactly once.
C3_BuildSamplesMapper ==
    lret.cache = "ok" =>
        /\ \A r \in ChanVals, g \in ChanVals, b \in ChanVals :
              LET i  == r * 65536 + g * 256 + b
                  xy == rgbToMapPosition(Color(r, g, b, 255), C3_TagAxis, TRUE)
              IN  /\ i \in 0..(LUT_RAW_DATA_SIZE - 1)
                  /\ lbuf.cache.data[i] = ImageAt(lcfg.img, xy[1], xy[2])
                  /\ ExactSize(lcfg.img) =>
                        lbuf.cache.data[i] = PixelOf(lcfg.img.kind, xy[2] * MAP_SIDE + xy[1])
                  /\ lstat.writes[i] = 1
        /\ Cardinality(Idx) = NumChan * NumChan * NumChan
        /\ lstat.sampled = Cardinality(Idx)

C3_Witness ==
    /\ lret.cache = "ok"
    /\ ExactSize(lcfg.img)
    /\ C3_TagAxis = 0
    /\ lbuf.cache.data[255 * 65536 + 16 * 256 + 1] # Color(0, 0, 0, 0)
    /\ lstat.writes[255 * 65536 + 16 * 256 + 1] = 1

\* C5: a table built and written in full to the cache file, then loaded back,
\* is the table built, byte for byte; and writing a table loaded from a cache
\* file of 2^26 bytes gives back the file's bytes.
C5_RoundTrip ==
    /\ ( /\ lstat.calls = <<"cache", "load">>
         /\ lret.cache = "ok" /\ lcfg.out = "ok"
         /\ Ended(lret.load) /\ lret.load # "threw_alloc" )
       => /\ lret.load = "ok"
          /\ lbuf.load.data = lbuf.cache.data
          /\ \A o \in Offsets :
                ColorByte(lbuf.load.data[o \div SIZEOF_COLOR], o % SIZEOF_COLOR)
                  = ColorByte(lbuf.cache.data[o \div SIZEOF_COLOR], o % SIZEOF_COLOR)
    /\ ( /\ lret.load = "ok"
         /\ lstat.calls[Len(lstat.calls)] = "load"
         /\ lfile.len = CACHE_BYTES )
       => WriteBytes(lbuf.load.data, CACHE_BYTES) = lfile.bytes

\* a table built from a map with transparency was written, loaded, and holds
\* an entry whose four bytes are all different from zero
C5_Witness ==
    /\ lstat.calls = <<"cache", "load">>
    /\ lret.cache = "ok" /\ lcfg.out = "ok" /\ lret.load = "ok"
    /\ lcfg.img.kind = "sheer"
    /\ \E i \in Idx : /\ lbuf.load.data[i].a \notin {0, 255}
                      /\ lbuf.load.data[i].r # 0
                      /\ lbuf.load.data[i].r # lbuf.load.data[i].a

\* C6: a load of a file that is missing or shorter than 2^26 bytes ends in an
\* error: no table is returned, and the buffer allocated for the load is
\* released exactly once (never twice, whatever the outcome).
C6_FailedLoadReleases ==
    /\ lbuf.load.frees <= 1
    /\ lret.load = "ok" => lbuf.load.st = "live"
    /\ ( /\ Ended(lret.load)
         /\ (~lstat.loadSaw[1] \/ lstat.loadSaw[2] < CACHE_BYTES) )
       => /\ lret.load \in {"threw_open", "threw_invalid", "threw_alloc"}
          /\ lret.load # "threw_alloc" => (lbuf.load.st = "freed" /\ lbuf.load.frees = 1)
          /\ lret.load = "threw_alloc" => (lbuf.load.st = "null" /\ lbuf.load.frees = 0)

\* a file cut inside its second record was read into the buffer, the load
\* threw, and the buffer was released
C6_Witness ==
    /\ lret.load = "threw_invalid"
    /\ lstat.loadSaw = <<TRUE, SHORT_LEN>>
    /\ lstat.failbit
    /\ lbuf.load.st = "freed" /\ lbuf.load.frees = 1

\* C15: every entry of a table freshly built from a lutmap is opaque,
\* whatever lutmap was accepted.
C15_BuiltOpaque ==
    lret.cache = "ok" => \A i \in Idx : lbuf.cache.data[i].a = 255

\* what the code keeps of it: the alpha of an entry is the alpha of the lutmap
\* pixel it was sampled from, opaque only if the lutmap was
C15_AlphaOfLutmap ==
    lret.cache = "ok" =>
        \A r \in ChanVals, g \in ChanVals, b \in ChanVals :
            LET xy == rgbToMapPosition(Color(r, g, b, 255), C3_TagAxis, TRUE)
            IN  lbuf.cache.data[r * 65536 + g * 256 + b].a
                    = ImageAt(lcfg.img, xy[1], xy[2]).a

\* a table built from a 4096x4096 lutmap with an alpha channel, one entry of
\* which is not opaque
C15_SheerEntry ==
    /\ lret.cache = "ok"
    /\ ExactSize(lcfg.img)
    /\ \E i \in Idx : lbuf.cache.data[i].a # 255
(***************************************************************************)
(* Claims about main.cpp                                                   *)
(***************************************************************************)
RECURSIVE UnitsFrom(_, _)
\* the units the job loop makes of an argument list, from place i on
UnitsFrom(args, i) ==
    IF i > Len(args) THEN <<>>
    ELSE <<UnitAt(args, i)>> \o UnitsFrom(args, UnitAt(args, i).next)

Units == UnitsFrom(rest, 1)

\* a unit whose own steps do not fail
GoodUnit(u) == Decodes(u.in) /\ Writable(u.out)

\* the table was read in full and the job loop met no exception
BatchRan == lut.st # "null" /\ run.failed = "none" /\ pc \in {"exit"}

DistinctPaths ==
    \A j \in 1..Len(Units), k \in 1..Len(Units) :
        /\ Units[j].in # Units[k].out
        /\ j # k => (Units[j].in # Units[k].in /\ Units[j].out # Units[k].out)

\* C4: every pixel a unit writes has the R, G, B of the LUT entry at the source
\* pixel's hexRGB and the source pixel's alpha; under an identity LUT the
\* image written is the source image.
C4_ApplyKeepsAlpha ==
    \A k \in 1..Len(workers) :
        workers[k].saved # <<>> =>
            LET src == InputImage(workers[k].in)
                out == workers[k].saved
            IN  /\ Len(out) = Len(src)
                /\ \A j \in 1..Len(src) :
                      LET e == lut.data[src[j].r * 65536 + src[j].g * 256 + src[j].b]
                      IN  /\ out[j].r = e.r /\ out[j].g = e.g /\ out[j].b = e.b
                          /\ out[j].a = src[j].a
                /\ (\A i \in MainIdx :
                       lut.data[i].r * 65536 + lut.data[i].g * 256 + lut.data[i].b = i)
                   => out = src

\* a unit wrote an image under the identity LUT, whose entries store alpha 0,
\* and the pixel written kept the source's alpha 7
C4_Witness ==
    \E k \in 1..Len(workers) :
        /\ workers[k].in = "a"
        /\ workers[k].saved = InputImage("a")
        /\ lutf.kind = "identity"
        /\ lut.data[getHexRGB(InputImage("a")[2])].a = 0
        /\ workers[k].saved[2].a = 7
        /\ disk[workers[k].out] = workers[k].saved

\* C7: when the table fails to build or to load, no unit is started, no
\* image is written, and the process does not end with status 0.
C7_LutFailureAborts ==
    run.failed \in {"build", "load"} =>
        /\ run.started = 0
        /\ \A p \in OutPaths : disk[p] = <<>>
        /\ run.exit # "0"

\* what the code does on a failed table: no unit, no image, and status 1
\* after a failed build but status 0 after a failed load
C7_LutFailureStartsNothing ==
    run.failed \in {"build", "load"} =>
        /\ run.started = 0
        /\ \A p \in OutPaths : disk[p] = <<>>
        /\ run.failed = "build" => run.exit \in {"running", "1"}
        /\ run.failed = "load" => run.exit \in {"running", "0"}

\* C8: in a batch where some unit fails on its own (decode or save), once
\* the process has ended its status is 0, every unit of the list was run to
\* its end, the failing ones reported an error, and every other unit wrote its
\* output.
C8_UnitFailureIsLocal ==
    (BatchRan /\ \E j \in 1..Len(Units) : ~GoodUnit(Units[j])) =>
        /\ run.exit = "0"
        /\ Len(workers) = Len(Units)
        /\ \A k \in 1..Len(workers) :
              /\ workers[k].pc = "done"
              /\ GoodUnit(Units[k]) =>
                    (workers[k].rep = "saved" /\ workers[k].saved # <<>>)
              /\ ~GoodUnit(Units[k]) =>
                    (workers[k].rep = "error" /\ workers[k].saved = <<>>)

\* the same, for the runs in which the vector of threads never reallocates
\* over started threads
C8_LocalUnlessRelocated ==
    (BatchRan /\ run.exit # "abort" /\ \E j \in 1..Len(Units) : ~GoodUnit(Units[j])) =>
        /\ run.exit = "0"
        /\ Len(workers) = Len(Units)
        /\ \A k \in 1..Len(workers) :
              /\ workers[k].pc = "done"
              /\ GoodUnit(Units[k]) =>
                    (workers[k].rep = "saved" /\ workers[k].saved # <<>>)
              /\ ~GoodUnit(Units[k]) =>
                    (workers[k].rep = "error" /\ workers[k].saved = <<>>)

\* C9: with pairwise distinct paths, the images on disk when the process has
\* ended are those the LUT makes of the inputs, whatever the interleaving.
C9_SameOutputsAnyInterleaving ==
    (BatchRan /\ DistinctPaths) =>
        \A j \in 1..Len(Units) :
            Decodes(Units[j].in) /\ Writable(Units[j].out) =>
                disk[Units[j].out] = ApplyLUT(lut.data, InputImage(Units[j].in))

\* the same, for the runs that do not end in std::terminate
C9_SameOutputsUnlessRelocated ==
    (BatchRan /\ run.exit # "abort" /\ DistinctPaths) =>
        \A j \in 1..Len(Units) :
            Decodes(Units[j].in) /\ Writable(Units[j].out) =>
                disk[Units[j].out] = ApplyLUT(lut.data, InputImage(Units[j].in))

\* C9, second half: no step of a unit writes the table
C9_LutReadOnly == [][workers' # workers => lut' = lut]_vars

CoutWriters == {k \in 1..Len(workers) : workers[k].pc = "write_cout"}

CerrWriters ==
    {k \in 1..Len(workers) : workers[k].pc = "write_cerr"}
    \cup (IF pc = "catch_write" THEN {MAIN} ELSE {})

\* C10: at most one thread writes a line to standard output and at most one to
\* standard error, each under that stream's own mutex; no thread holds both
\* mutexes, a thread that waits for one holds none, and the holder of a mutex
\* is writing its line (so it goes on to release it).
C10_StatusSerialized ==
    /\ Cardinality(CoutWriters) <= 1
    /\ Cardinality(CerrWriters) <= 1
    /\ \A t \in CoutWriters : coutm = t
    /\ \A t \in CerrWriters : cerrm = t
    /\ coutm # FREE => (coutm \in CoutWriters /\ coutm # cerrm)
    /\ cerrm # FREE => cerrm \in CerrWriters
    /\ \A k \in 1..Len(workers) :
          workers[k].pc \in {"want_cout", "want_cerr"} => (coutm # k /\ cerrm # k)
    /\ pc = "catch" => (coutm # MAIN /\ cerrm # MAIN)

\* one unit writes to standard output while another writes to standard error
C10_Witness ==
    /\ coutm # FREE /\ cerrm # FREE
    /\ coutm # cerrm
    /\ coutm \in CoutWriters /\ cerrm \in CerrWriters

\* the main thread waits for cerr_mutex while a unit holds it
C10_MainWaits == pc = "catch" /\ cerrm \in 1..Len(workers)

\* what line 213 reserves for the list of the run
Reserved == Len(rest) + 1 - 2

\* C13: the threads started never exceed the capacity reserved for the
\* vector of workers, so the vector never reallocates over a started
\* ThreadGuard and the process is never ended by the join of a thread that
\* was moved from.
C13_CapacitySuffices ==
    workers # <<>> =>
        /\ Len(workers) <= Reserved
        /\ pc # "relocate"
        /\ run.exit # "abort"

\* what the code keeps of it: the reserved capacity falls short only for a
\* list in which no input is followed by an -OUTPUT
C13_ShortOnlyWithoutOutputs ==
    (workers # <<>> /\ (Len(workers) > Reserved \/ pc = "relocate" \/ run.exit = "abort")) =>
        Len(Units) = Len(rest)

\* a started thread whose guard was relocated: the process was terminated
C13_Terminated ==
    /\ run.exit = "abort"
    /\ Len(workers) = 2
    /\ Reserved = 1

AllJoined == \A k \in 1..Len(workers) : workers[k].pc = "done" /\ workers[k].joined

\* C14: the LUT is released only once every started worker has ended and
\* was joined, and main returns only then, also when the job loop threw with
\* workers started; a worker that has its pixels still to map finds the LUT
\* live while the process runs.
C14_LutOutlivesWorkers ==
    /\ lut.st = "freed" => AllJoined
    /\ run.exit = "0" => AllJoined
    /\ \A k \in 1..Len(workers) :
          (workers[k].pc = "run" /\ Running) => lut.st = "live"
    /\ run.exit = "abort" => lut.st # "freed"

\* the job loop threw with a worker started, the worker wrote its output,
\* was joined, and the LUT was released after it
C14_Witness ==
    /\ run.failed = "assign"
    /\ run.exit = "0"
    /\ lut.st = "freed"
    /\ Len(workers) >= 1
    /\ workers[1].rep = "saved"
    /\ workers[1].joined

\* C14 on the normal path: every unit of the list was started and joined
\* before the release
C14_WitnessNormal ==
    /\ run.failed = "none"
    /\ lut.st = "freed"
    /\ Len(workers) = 2
    /\ AllJoined

\* C14 as a property of the steps: the step that releases the LUT, and the
\* step that returns from main, is taken with every worker joined
C14_ReleaseAfterJoin ==
    [][(lut'.st = "freed" /\ lut.st # "freed") \/ (run'.exit = "0" /\ run.exit # "0")
          => AllJoined]_vars
(***************************************************************************)
(* Claims about sampleSpan                                                 *)
(***************************************************************************)
\* twice the distance, in units of 1 / (samples - 1), between point and the
\* exact i-th sample begin + i * (end - begin) / (samples - 1)
SampleOff(point, i) ==
    LET d == 2 * (sIn.samples - 1) * point
               - 2 * (sIn.begin * (sIn.samples - 1) + i * (sIn.end - sIn.begin))
    IN  IF d < 0 THEN 0 - d ELSE d

\* the exact i-th sample rounded to the nearest integer, a half going away
\* from zero
SampleRounded(i) ==
    LET den == sIn.samples - 1
        num == sIn.begin * den + i * (sIn.end - sIn.begin)
    IN  IF num >= 0 THEN (2 * num + den) \div (2 * den)
        ELSE 0 - ((2 * (0 - num) + den) \div (2 * den))

\* what holds of the result whatever the rounding: the count, the ends, the
\* order, and the failure below two samples
SampleSpanShape ==
    IF sIn.samples >= 2
    THEN /\ ~sOut.threw
         /\ Len(sOut.points) = sIn.samples
         /\ sOut.points[1] = sIn.begin
         /\ sOut.points[sIn.samples] = sIn.end
         /\ sIn.begin <= sIn.end =>
               \A i \in 1..(sIn.samples - 1) : sOut.points[i] <= sOut.points[i + 1]
    ELSE sOut.threw /\ sOut.points = <<>>

\* C11: sampleSpan(begin, end, count) with count >= 2 returns count integers,
\* the i-th being begin + i * (end - begin) / (count - 1) rounded to the nearest
\* integer, the first begin, the last end, non-decreasing when begin <= end;
\* with count < 2 it fails and returns no samples.
C11_SampleSpanRounds ==
    sOut.done =>
        /\ SampleSpanShape
        /\ sIn.samples >= 2 =>
              \A i \in 0..(sIn.samples - 1) : sOut.points[i + 1] = SampleRounded(i)

\* the same, with a sample that lies halfway between two integers allowed to
\* go to either
C11_SampleSpanWithinHalf ==
    sOut.done =>
        /\ SampleSpanShape
        /\ sIn.samples >= 2 =>
              \A i \in 0..(sIn.samples - 1) :
                  SampleOff(sOut.points[i + 1], i) <= sIn.samples - 1

\* the example of the text: sampleSpan(0, 255, 25)
C11_DefaultSpan ==
    (sOut.done /\ sIn = [begin |-> 0, end |-> 255, samples |-> DEFAULT_SAMPLES]) =>
        /\ Len(sOut.points) = 25
        /\ sOut.points[1] = 0
        /\ sOut.points[25] = 255
        /\ sOut.points[13] = 128

\* a half that went up, sampleSpan(0, 7, 3)[1] = 4, and the same half gone
\* down, sampleSpan(0, 7, 7)[3] = 3
C11_HalfUp ==
    sOut.done /\ sIn = [begin |-> 0, end |-> 7, samples |-> 3] /\ sOut.points[2] = 4

C11_HalfDown ==
    sOut.done /\ sIn = [begin |-> 0, end |-> 7, samples |-> 7] /\ sOut.points[4] = 3
(***************************************************************************)
(* Claims about generateCube                                               *)
(***************************************************************************)
\* value spells, to six decimals, channel / 255 rounded to the nearest, and
\* lies in [0.000000, 1.000000]
IsQuantized(value, channel) ==
    /\ 0 <= value /\ value <= 1000000
    /\ 2 * (255 * value - channel * 1000000) <= 255
    /\ 2 * (channel * 1000000 - 255 * value) <= 255

\* the entry of the table that data line k (from 0) is made of
CubeEntryOfLine(k) ==
    LET n == gcfg.cube_res
        s == sampleSpan(0, 255, n).points
    IN  gcfg.data[getHexRGB(Color(s[(k % n) + 1], s[((k \div n) % n) + 1],
                                  s[(k \div (n * n)) + 1], 255))]

\* C12: for a resolution R >= 2 the cube file has LUT_3D_SIZE R and, once
\* generateCube has returned, exactly R^3 data lines; data line k holds the R, G
\* and B of the entry at hexRGB(s[k mod R], s[(k div R) mod R], s[k div R^2]),
\* s = sampleSpan(0, 255, R), each divided by 255 and within [0, 1].
C12_CubeLayout ==
    (gcfg.cube_res >= 2 /\ gfile.exists) =>
        /\ gfile.size = gcfg.cube_res
        /\ Len(gfile.lines) <= gcfg.cube_res * gcfg.cube_res * gcfg.cube_res
        /\ gpc = "returned" =>
              Len(gfile.lines) = gcfg.cube_res * gcfg.cube_res * gcfg.cube_res
        /\ \A k \in 0..(Len(gfile.lines) - 1) :
              /\ IsQuantized(gfile.lines[k + 1][1], CubeEntryOfLine(k).r)
              /\ IsQuantized(gfile.lines[k + 1][2], CubeEntryOfLine(k).g)
              /\ IsQuantized(gfile.lines[k + 1][3], CubeEntryOfLine(k).b)

\* the identity table exported at resolution 3: 27 lines, the second with red
\* 128 / 255 alone, the fourth green, the tenth blue, the last all 1.000000
C12_Witness ==
    /\ gpc = "returned"
    /\ gcfg.cube_res = 3
    /\ gcfg.data = CubeTable(LutFile("identity", CACHE_BYTES))
    /\ Len(gfile.lines) = 27
    /\ gfile.lines[2] = <<501961, 0, 0>>
    /\ gfile.lines[4] = <<0, 501961, 0>>
    /\ gfile.lines[10] = <<0, 0, 501961>>
    /\ gfile.lines[27] = <<1000000, 1000000, 1000000>>
====
